---- MODULE Spec2Model ----
(***************************************************************************)
(* A model of vtkplotlib's QtFigure (src/vtkplotlib/figures/QtFigure.py):  *)
(* the lazily constructed render surface (vtkWidget), its render window    *)
(* (renWin) and interactor (iren), the re-initialisation on show() and the *)
(* teardown in close() / closeEvent().                                     *)
(*                                                                         *)
(* Objects are numbers.  The k-th QVTKRenderWindowInteractor constructed   *)
(* is widget k; the render window it owns (GetRenderWindow()) and that     *)
(* window's interactor (GetInteractor()) are 1:1 with it and carry the     *)
(* same number k.  0 stands for "no object" (None / attribute not set).    *)
(* A widget of the host application in the figure's layout is a negative   *)
(* number.                                                                 *)
(***************************************************************************)
EXTENDS Integers, Sequences, FiniteSets, TLC

\* Bound of the model: the number of QVTKRenderWindowInteractor instances
\* that may ever be constructed in one behaviour.
MaxWidgets == 6

\* The renderer made by BaseFigure.__init__ during construction.
Renderer0 == 1

\* The value of an attribute that has not been assigned yet
\* (_vtkwidget_replace_index before the first _clean_up).
Unset == -2

\* The active camera of the renderer made during construction.
Camera0 == 1

\* Bound of the model: the number of props (plots) added to the renderer.
MaxProps == 1

\* Bound of the model: the number of widgets other than the render surface
\* that the host adds to the figure's layout.
MaxOthers == 1

SlotNames == {"vtkWidget", "renWin", "iren"}

VARIABLES
    cache,            \* init_when_called slots: name -> object (0 = empty)
    nWidgets,         \* QVTKRenderWindowInteractor instances constructed so far
    vl,               \* self.vl: the widgets in the QVBoxLayout, in order
    renderer,         \* self.renderer
    rendererWindow,   \* self.renderer.GetRenderWindow() (0 = None)
    registered,       \* render windows whose renderer list holds self.renderer
    finalized,        \* render windows on which Finalize() was called
    glCurrent,        \* render window made current by MakeCurrent()
    styled,           \* interactors on which SetInteractorStyle(iren_style) ran
    replaceIndex,     \* self._vtkwidget_replace_index (Unset before assignment)
    visible,          \* QWidget visibility of the figure
    hasParent,        \* self.parent() is not None
    inLoop,           \* a show(block=True) is suspended in qapp.exec_()
    err,              \* exception raised by the last operation ("none" if none)
    lastOp,           \* the last operation run
    closed,           \* history: close() has been called
    log,              \* history: the native calls made by the last operation
    runs,             \* history: runs of _clean_up in the last operation
    drawn,            \* history: window rendered by the last operation (0 = none)
    reinit,           \* history: the last operation ran _re_init
    bindOccupied,     \* history: that _re_init found a surface in the layout
    calls,            \* history: factory calls per slot since its invalidation
    gets,             \* history: slot read since its invalidation
    built,            \* history: widgets constructed since del self.vtkWidget
    activeCamera,     \* self.renderer.GetActiveCamera()
    silenced,         \* objects the error silencer is attached to
    quitRequested,    \* the running event loop has been told to stop
    execCalled,       \* history: the last operation called qapp.exec_()
    blockArg,         \* history: the block argument of the last show()
    props             \* number of props (plots) in self.renderer

vars ==
    << cache, nWidgets, vl, renderer, rendererWindow, registered, finalized,
       glCurrent, styled, replaceIndex, visible, hasParent, inLoop, err,
       lastOp, closed, log, runs, drawn, reinit, bindOccupied, calls, gets,
       built, activeCamera, silenced, quitRequested, execCalled, blockArg,
       props >>

\* The state as one record, so that the methods compose as functions.
Cur ==
    [ cache |-> cache, nWidgets |-> nWidgets, vl |-> vl, renderer |-> renderer,
      rendererWindow |-> rendererWindow, registered |-> registered,
      finalized |-> finalized, glCurrent |-> glCurrent, styled |-> styled,
      replaceIndex |-> replaceIndex, visible |-> visible,
      hasParent |-> hasParent, inLoop |-> inLoop, err |-> err,
      lastOp |-> lastOp, closed |-> closed, log |-> log, runs |-> runs,
      drawn |-> drawn, reinit |-> reinit, bindOccupied |-> bindOccupied,
      calls |-> calls, gets |-> gets, built |-> built,
      activeCamera |-> activeCamera, silenced |-> silenced,
      quitRequested |-> quitRequested, execCalled |-> execCalled,
      blockArg |-> blockArg, props |-> props ]

Commit(s) ==
    /\ cache' = s.cache
    /\ nWidgets' = s.nWidgets
    /\ vl' = s.vl
    /\ renderer' = s.renderer
    /\ rendererWindow' = s.rendererWindow
    /\ registered' = s.registered
    /\ finalized' = s.finalized
    /\ glCurrent' = s.glCurrent
    /\ styled' = s.styled
    /\ replaceIndex' = s.replaceIndex
    /\ visible' = s.visible
    /\ hasParent' = s.hasParent
    /\ inLoop' = s.inLoop
    /\ err' = s.err
    /\ lastOp' = s.lastOp
    /\ closed' = s.closed
    /\ log' = s.log
    /\ runs' = s.runs
    /\ drawn' = s.drawn
    /\ reinit' = s.reinit
    /\ bindOccupied' = s.bindOccupied
    /\ calls' = s.calls
    /\ gets' = s.gets
    /\ built' = s.built
    /\ activeCamera' = s.activeCamera
    /\ silenced' = s.silenced
    /\ quitRequested' = s.quitRequested
    /\ execCalled' = s.execCalled
    /\ blockArg' = s.blockArg
    /\ props' = s.props

(***************************************************************************)
(* Helpers for the Qt layout and the history log.                          *)
(***************************************************************************)

\* QLayout.indexOf: the 0-based position of widget w, -1 when absent.
IndexOf(seq, w) ==
    IF \E i \in 1..Len(seq) : seq[i] = w
    THEN (CHOOSE i \in 1..Len(seq) :
              seq[i] = w /\ \A j \in 1..(i - 1) : seq[j] # w) - 1
    ELSE -1

\* QBoxLayout.addWidget: the widget is added at the end.
layout_addWidget(s, w) == [s EXCEPT !.vl = Append(@, w)]

\* QLayout.removeWidget: the layout without widget w.
RemoveFrom(seq, w) == SelectSeq(seq, LAMBDA x : x # w)

\* QBoxLayout.insertWidget(i, w): at 0-based position i; a negative index
\* (or one past the end) adds the widget at the end.
InsertAt(seq, i, w) ==
    IF i < 0 \/ i >= Len(seq)
    THEN Append(seq, w)
    ELSE SubSeq(seq, 1, i) \o <<w>> \o SubSeq(seq, i + 1, Len(seq))

\* The render surfaces among the widgets of a layout.
Surfaces(seq) == SelectSeq(seq, LAMBDA x : x > 0)

\* The widgets of the host application among the widgets of a layout.
Others(seq) == SelectSeq(seq, LAMBDA x : x < 0)

\* One native call, recorded with the state it leaves behind.
Logged(s, step, obj) ==
    [s EXCEPT !.log = Append(@,
        [ step |-> step, obj |-> obj, run |-> s.runs, vl |-> s.vl,
          registered |-> s.registered, finalized |-> s.finalized,
          rendererWindow |-> s.rendererWindow, cache |-> s.cache ])]

(***************************************************************************)
(* nuts_and_bolts.init_when_called: a property that calls the decorated    *)
(* method on first read, caches the result, and forgets it on del.         *)
(***************************************************************************)

\* Reading the property: the cached object when there is one; otherwise
\* the decorated method is called and its result stored.  `made` is what
\* that call gives from state s: [st |-> state after, val |-> object].
init_when_called(s, name, made) ==
    IF s.cache[name] # 0
    THEN [s EXCEPT !.gets[name] = TRUE]
    ELSE [made.st EXCEPT !.cache[name] = made.val,
                         !.gets[name] = TRUE,
                         !.calls[name] = @ + 1]

\* del self.<name>: the slot is emptied; nothing is released.
invalidate(s, name) ==
    Logged([s EXCEPT !.cache[name] = 0,
                     !.calls[name] = 0,
                     !.gets[name] = FALSE,
                     !.built = IF name = "vtkWidget" THEN 0 ELSE @],
           "del_" \o name, s.cache[name])

(***************************************************************************)
(* The three lazy properties of QtFigure.                                  *)
(***************************************************************************)

\* QVTKRenderWindowInteractor(self); self.vl.addWidget(vtkWidget)
new_vtkWidget(s) ==
    LET w == s.nWidgets + 1
    IN  [ st  |-> Logged([s EXCEPT !.nWidgets = w,
                                   !.built = @ + 1,
                                   !.vl = Append(@, w)],  \* line 269
                         "construct", w),
          val |-> w ]

vtkWidget(s) == init_when_called(s, "vtkWidget", new_vtkWidget(s))

\* renWin built on a widget of its own instead of self.vtkWidget.
new_renWin_own_widget(s) ==
    LET w == s.nWidgets + 1
    IN  [ st  |-> Logged([s EXCEPT !.nWidgets = w, !.built = @ + 1],
                         "construct", w),
          val |-> w ]

\* self.vtkWidget.GetRenderWindow()
new_renWin(s) ==
    LET a == vtkWidget(s)
    IN  [ st |-> a, val |-> a.cache.vtkWidget ]

renWin(s) == init_when_called(s, "renWin", new_renWin(s))

\* The interactor made on its own (the commented-out line 282) instead of
\* taken from self.vtkWidget.
new_iren_standalone(s) ==
    [ st |-> s, val |-> s.nWidgets + 1 ]

\* self.vtkWidget.GetRenderWindow().GetInteractor()
new_iren(s) ==
    LET a == vtkWidget(s)
    IN  [ st |-> a, val |-> a.cache.vtkWidget ]

iren(s) == init_when_called(s, "iren", new_iren(s))

(***************************************************************************)
(* The calls into VTK that the figure makes.                               *)
(***************************************************************************)

\* vtkRenderWindow.AddRenderer: nothing when the window already has the
\* renderer; otherwise the renderer's window becomes this one.
AddRenderer(s, w) ==
    Logged(IF w \in s.registered
           THEN s
           ELSE [s EXCEPT !.registered = @ \cup {w},
                          !.rendererWindow = w],
           "AddRenderer", w)

\* vtkRenderWindow.RemoveRenderer: the renderer forgets the window when it
\* is this one, and leaves the window's list.
RemoveRenderer(s, w) ==
    Logged([s EXCEPT !.registered = @ \ {w},
                     !.rendererWindow = IF @ = w THEN 0 ELSE @],
           "RemoveRenderer", w)

\* vtkRenderWindow.Finalize
Finalize(s, w) == Logged([s EXCEPT !.finalized = @ \cup {w}], "Finalize", w)

\* vtkRenderWindow.MakeCurrent
MakeCurrent(s, w) == Logged([s EXCEPT !.glCurrent = w], "MakeCurrent", w)

(***************************************************************************)
(* The methods of QtFigure, as functions from state to state.              *)
(***************************************************************************)

\* What every call starts from: no exception yet, an empty history.
Begin(s, op) ==
    [s EXCEPT !.err = "none", !.lastOp = op, !.log = <<>>, !.runs = 0,
              !.drawn = 0, !.reinit = FALSE, !.bindOccupied = FALSE,
              !.execCalled = FALSE, !.blockArg = "None"]

\* silencer.attach(obj): the error silencer observes obj from now on.
silencer_attach(s, name, obj) ==
    [s EXCEPT !.silenced = @ \cup {<< name, obj >>}]

\* Lines 220-222 with only the surface widget observed.
init_silence_widget_only(s) ==
    LET a == vtkWidget(s)
    IN  silencer_attach(a, "vtkWidget", a.cache.vtkWidget)

\* Lines 220-222: the silencer is attached to the surface widget, the
\* interactor and the render window.
init_silence(s) ==
    LET a == vtkWidget(s)
        b == iren(silencer_attach(a, "vtkWidget", a.cache.vtkWidget))
        c == renWin(silencer_attach(b, "iren", b.cache.iren))
    IN  silencer_attach(c, "renWin", c.cache.renWin)

\* QtFigure.__init__: the state of a figure just constructed.
QtFigure_init(parent) ==
    LET s0 == [ cache |-> [vtkWidget |-> 0, renWin |-> 0, iren |-> 0],
                nWidgets |-> 0,
                vl |-> <<>>, renderer |-> 0, rendererWindow |-> 0,
                registered |-> {}, finalized |-> {}, glCurrent |-> 0,
                styled |-> {}, replaceIndex |-> Unset, visible |-> FALSE,
                hasParent |-> parent, inLoop |-> FALSE, err |-> "none",
                lastOp |-> "init", closed |-> FALSE, log |-> <<>>,
                runs |-> 0, drawn |-> 0, reinit |-> FALSE,
                bindOccupied |-> FALSE,
                calls |-> [vtkWidget |-> 0, renWin |-> 0, iren |-> 0],
                gets |-> [vtkWidget |-> FALSE, renWin |-> FALSE,
                          iren |-> FALSE],
                built |-> 0, activeCamera |-> 0, silenced |-> {},
                quitRequested |-> FALSE, execCalled |-> FALSE,
                blockArg |-> "None", props |-> 0 ]
        s1 == vtkWidget(s0)                                 \* line 210
        s2 == renWin(s1)                                    \* line 214
        s3 == init_silence(iren(s2))                        \* lines 215-222
        s4 == [s3 EXCEPT !.renderer = Renderer0,            \* line 227
                         !.activeCamera = Camera0]
        s5 == [s4 EXCEPT !.styled = @ \cup {s3.cache.iren}] \* line 229
        s6 == renWin(s5)
    IN  AddRenderer(s6, s6.cache.renWin)                    \* line 231

\* finalise as inherited from BaseFigure: the resets that the override
\* keeps out (the window is finalized and the renderer taken from it).
finalise_inherited(s) ==
    IF s.cache["renWin"] # 0
    THEN RemoveRenderer(Finalize(s, s.cache["renWin"]), s.cache["renWin"])
    ELSE s

\* QtFigure.finalise: overridden to do nothing.
finalise(s) == s

\* QtFigure._clean_up, line 307: self.renWin.MakeCurrent()
cu_MakeCurrent(s) ==
    LET a == renWin([s EXCEPT !.runs = @ + 1])
    IN  MakeCurrent(a, a.cache.renWin)

\* line 308: self._vtkwidget_replace_index = self.vl.indexOf(self.vtkWidget)
cu_record_index(s) ==
    LET a == vtkWidget(s)
    IN  [a EXCEPT !.replaceIndex = IndexOf(a.vl, a.cache.vtkWidget)]

\* line 309: self.vl.removeWidget(self.vtkWidget)
cu_removeWidget(s) ==
    LET a == vtkWidget(s)
    IN  Logged([a EXCEPT !.vl = RemoveFrom(@, a.cache.vtkWidget)],
               "removeWidget", a.cache.vtkWidget)

\* line 311: self.renWin.Finalize()
cu_Finalize(s) ==
    LET a == renWin(s)
    IN  Finalize(a, a.cache.renWin)

\* line 312: self.renWin.RemoveRenderer(self.renderer)
cu_RemoveRenderer(s) ==
    LET a == renWin(s)
    IN  RemoveRenderer(a, a.cache.renWin)

\* Line 313 without self.iren: the interactor of the torn-down surface
\* stays cached.
cu_del_keep_iren(s) ==
    invalidate(invalidate(s, "vtkWidget"), "renWin")

\* line 313: del self.vtkWidget, self.iren, self.renWin
cu_del(s) ==
    invalidate(invalidate(invalidate(s, "vtkWidget"), "iren"), "renWin")

\* The teardown with the renderer removed before the window is finalized
\* and the references dropped first.
_clean_up_release_first(s) ==
    cu_Finalize(cu_RemoveRenderer(cu_del(
        cu_removeWidget(cu_record_index(cu_MakeCurrent(s))))))

\* The teardown without line 309: the widget stays in the layout.
_clean_up_no_remove(s) ==
    cu_del(cu_RemoveRenderer(cu_Finalize(
        cu_record_index(cu_MakeCurrent(s)))))

\* The teardown without line 312: the renderer stays registered.
_clean_up_keep_renderer(s) ==
    cu_del(cu_Finalize(
        cu_removeWidget(cu_record_index(cu_MakeCurrent(s)))))

\* QtFigure._clean_up
_clean_up(s) ==
    cu_del(cu_RemoveRenderer(cu_Finalize(
        cu_removeWidget(cu_record_index(cu_MakeCurrent(s))))))

\* QtFigure._clean_up when the native call `failing` raises: the lines
\* before it have run, the exception leaves the method (there is no try
\* block), and the lines after it are not executed.
_clean_up_raising(s, failing) ==
    LET a == CASE failing = "MakeCurrent" ->
                      renWin([s EXCEPT !.runs = @ + 1])
               [] failing = "indexOf" ->
                      vtkWidget(cu_MakeCurrent(s))
               [] failing = "removeWidget" ->
                      vtkWidget(cu_record_index(cu_MakeCurrent(s)))
               [] failing = "Finalize" ->
                      renWin(cu_removeWidget(cu_record_index(
                          cu_MakeCurrent(s))))
               [] failing = "RemoveRenderer" ->
                      renWin(cu_Finalize(cu_removeWidget(cu_record_index(
                          cu_MakeCurrent(s)))))
    IN  [a EXCEPT !.err = "RuntimeError"]

\* closeEvent left as QWidget's own: no teardown.
closeEvent_inherited(s) == s

\* QtFigure.closeEvent
closeEvent(s) == _clean_up(s)

\* _re_init with the figure constructed anew (line 241 instead of 242) and
\* the renderer of the new construction kept.
ri_bind_new_renderer(s) ==
    LET s0 == Logged([s EXCEPT !.reinit = TRUE,
                               !.bindOccupied = (Surfaces(s.vl) # <<>>),
                               !.visible = FALSE], "_re_init", 0)
        a1 == iren(renWin(vtkWidget(s0)))
        s1 == [a1 EXCEPT !.styled = @ \cup {a1.cache.iren}]
        s2 == [s1 EXCEPT !.renderer = s.renderer + 1, !.rendererWindow = 0,
                         !.registered = {}]
        a3 == renWin(s2)
    IN  AddRenderer(a3, a3.cache.renWin)

\* _re_init without SetInteractorStyle on the new interactor (line 244).
ri_bind_no_style(s) ==
    LET s0 == Logged([s EXCEPT !.reinit = TRUE,
                               !.bindOccupied = (Surfaces(s.vl) # <<>>),
                               !.visible = FALSE], "_re_init", 0)
        a1 == iren(renWin(vtkWidget(s0)))
        s2 == [a1 EXCEPT !.renderer = s.renderer]
        a3 == renWin(s2)
    IN  AddRenderer(a3, a3.cache.renWin)

\* QtFigure._re_init, lines 237-246: the widget is constructed again as a
\* QWidget (hidden), the lazy surface, window and interactor are read, the
\* style is set on the interactor and the renderer is added to the window.
ri_bind(s) ==
    LET s0 == Logged([s EXCEPT !.reinit = TRUE,
                               !.bindOccupied = (Surfaces(s.vl) # <<>>),
                               !.visible = FALSE], "_re_init", 0)
        a1 == iren(renWin(vtkWidget(s0)))
        s1 == [a1 EXCEPT !.styled = @ \cup {a1.cache.iren}]
        s2 == [s1 EXCEPT !.renderer = s.renderer]
        a3 == renWin(s2)
    IN  AddRenderer(a3, a3.cache.renWin)

\* BaseFigure.camera: the active camera of self.renderer.
BaseFigure_camera(s) == s.activeCamera

\* vtkRenderer.SetActiveCamera
SetActiveCamera(s, c) ==
    Logged([s EXCEPT !.activeCamera = c], "SetActiveCamera", c)

\* Line 247 with a camera made anew instead of self.camera.
ri_camera_fresh(s) == SetActiveCamera(s, s.activeCamera + 1)

\* Line 247: self.renderer.SetActiveCamera(self.camera)
ri_camera(s) == SetActiveCamera(s, BaseFigure_camera(s))

\* Lines 248-249 without the indexOf test: the widget is always inserted.
ri_layout_unguarded(s) ==
    LET a == vtkWidget(s)
    IN  IF a.replaceIndex = Unset
        THEN [a EXCEPT !.err = "AttributeError"]
        ELSE Logged([a EXCEPT !.vl = InsertAt(@, a.replaceIndex,
                                              a.cache.vtkWidget)],
                    "insertWidget", a.cache.vtkWidget)

\* QtFigure._re_init, lines 248-250: a surface that is not in the layout is
\* inserted at the index that _clean_up recorded.
ri_layout(s) ==
    LET a == vtkWidget(s)
    IN  IF IndexOf(a.vl, a.cache.vtkWidget) = -1
        THEN IF a.replaceIndex = Unset
             THEN [a EXCEPT !.err = "AttributeError"]
             ELSE LET b == vtkWidget(a)
                  IN  Logged([b EXCEPT !.vl = InsertAt(@, b.replaceIndex,
                                                       b.cache.vtkWidget)],
                             "insertWidget", b.cache.vtkWidget)
        ELSE a

\* QtFigure._re_init
_re_init(s) == ri_layout(ri_camera(ri_bind(s)))

\* BaseFigure.show: draws the scene; a blocking show starts the interactor
\* (which returns at once for the embedded widget) and calls self.finalise().
BaseFigure_show(s, block) ==
    LET a == renWin(s)
        d == [a EXCEPT !.drawn = a.cache.renWin]
    IN  IF block THEN finalise(d) ELSE d

\* Line 254: self.renWin is self.renderer.GetRenderWindow()
is_current(s) == s.cache["renWin"] = s.rendererWindow

\* Line 258 with the test inverted: a block that was not given is True
\* when the figure has a parent.
default_block_inverted(s, block) ==
    IF block = "None" THEN s.hasParent ELSE block = "True"

\* Lines 257-258: a block that was not given is True exactly when the
\* figure has no parent.  block is "None", "True" or "False".
default_block(s, block) ==
    IF block = "None" THEN ~s.hasParent ELSE block = "True"

\* self.qapp.exec_(): the caller is suspended in the event loop; when the
\* loop is already running the call returns at once and the outer loop
\* goes on.
exec_(s) == [s EXCEPT !.execCalled = TRUE, !.inLoop = TRUE]

\* qapp.exec_() returns to show(), which returns: nothing follows line 263.
exec_return(s) == [s EXCEPT !.inLoop = FALSE, !.quitRequested = FALSE]

\* show() without the test of line 254: _re_init runs every time.
show_always_reinit(s, block) ==
    LET a == renWin(s)
        b == _re_init(a)
        c == [b EXCEPT !.visible = TRUE]
        blk == default_block(s, block)
        d == BaseFigure_show(c, blk)
    IN  IF b.err # "none" THEN b
        ELSE IF blk THEN exec_(d)
        ELSE d

\* show() without the rebind of lines 254-255.
show_no_reinit(s, block) ==
    LET c == [s EXCEPT !.visible = TRUE]
        blk == default_block(s, block)
        d == BaseFigure_show(c, blk)
    IN  IF blk THEN exec_(d) ELSE d

\* QtFigure.show.  block is "None", "True" or "False".
show(s, block) ==
    LET a == renWin(s)
        b == IF ~is_current(a) THEN _re_init(a) ELSE a
        c == [b EXCEPT !.visible = TRUE]              \* QWidget.show
        blk == default_block(s, block)
        d == BaseFigure_show(c, blk)
    IN  IF b.err # "none" THEN b
        ELSE IF blk THEN exec_(d)                     \* line 263
        ELSE d

\* BaseFigure.update: redraws a figure whose surface is the renderer's
\* window, and does nothing otherwise.
BaseFigure_update(s) ==
    IF s.cache["renWin"] # 0 /\ s.cache["renWin"] = s.rendererWindow
    THEN [s EXCEPT !.drawn = s.cache["renWin"]]
    ELSE s

\* update() that draws through self.renWin itself.
update_render(s) ==
    LET a == renWin(BaseFigure_update(s))
    IN  [a EXCEPT !.drawn = a.cache.renWin]

\* QtFigure.update: BaseFigure.update, then QWidget.update and
\* qapp.processEvents(), which touch none of the state modelled here.
update(s) == BaseFigure_update(s)

\* BaseFigure.close
BaseFigure_close(s) == finalise(s)

\* The figure's window goes away.  When that is the application's window
\* (the figure has no parent, or the close event comes from the parent's
\* window) a running event loop is told to stop.
QWidget_hide(s, window) ==
    [s EXCEPT !.visible = FALSE,
              !.quitRequested = @ \/ (window /\ s.inLoop)]

\* QWidget.close: delivers the close event to the widget, then hides it.
QWidget_close(s) == QWidget_hide(closeEvent(s), ~s.hasParent)

\* QtFigure.close
close(s) == _clean_up(QWidget_close(BaseFigure_close(s)))

\* A plot is added to the figure: the renderer gets one more prop.
add_plot(s) == [s EXCEPT !.props = @ + 1]

\* vtkRenderer.RemoveAllViewProps
RemoveAllViewProps(s) ==
    Logged([s EXCEPT !.props = 0], "RemoveAllViewProps", s.renderer)

\* The exceptions that the call of line 325 may end with ("none": it
\* returns).
CallOutcomes == {"none", "AttributeError", "TypeError", "RuntimeError"}

\* __del__ without the try block of lines 324-328.
del_unguarded(s, raised) ==
    IF raised = "none"
    THEN RemoveAllViewProps(s)
    ELSE [Logged(s, raised, 0) EXCEPT !.err = raised]

\* QtFigure.__del__: self.renderer.RemoveAllViewProps() inside a try that
\* catches AttributeError and TypeError.  `raised` is how the call ends.
del_(s, raised) ==
    IF raised = "none"
    THEN RemoveAllViewProps(s)
    ELSE IF raised \in {"AttributeError", "TypeError"}
         THEN Logged(s, raised, 0)
         ELSE [Logged(s, raised, 0) EXCEPT !.err = raised]

(***************************************************************************)
(* The state machine.                                                      *)
(***************************************************************************)

InitFrom(s) ==
    /\ cache = s.cache
    /\ nWidgets = s.nWidgets
    /\ vl = s.vl
    /\ renderer = s.renderer
    /\ rendererWindow = s.rendererWindow
    /\ registered = s.registered
    /\ finalized = s.finalized
    /\ glCurrent = s.glCurrent
    /\ styled = s.styled
    /\ replaceIndex = s.replaceIndex
    /\ visible = s.visible
    /\ hasParent = s.hasParent
    /\ inLoop = s.inLoop
    /\ err = s.err
    /\ lastOp = s.lastOp
    /\ closed = s.closed
    /\ log = s.log
    /\ runs = s.runs
    /\ drawn = s.drawn
    /\ reinit = s.reinit
    /\ bindOccupied = s.bindOccupied
    /\ calls = s.calls
    /\ gets = s.gets
    /\ built = s.built
    /\ activeCamera = s.activeCamera
    /\ silenced = s.silenced
    /\ quitRequested = s.quitRequested
    /\ execCalled = s.execCalled
    /\ blockArg = s.blockArg
    /\ props = s.props

Init ==
    \E parent \in BOOLEAN : InitFrom(QtFigure_init(parent))

\* The model stops constructing widgets at MaxWidgets.
InBounds(s) == s.nWidgets <= MaxWidgets

\* The figure has not been reclaimed: no method runs after __del__.
Alive == lastOp # "__del__"

Show ==
    \E block \in {"None", "True", "False"} :
        LET s == show([Begin(Cur, "show") EXCEPT !.blockArg = block], block)
        IN  /\ Alive
            /\ InBounds(s)
            /\ Commit(s)

Update ==
    LET s == update(Begin(Cur, "update"))
    IN  /\ Alive
        /\ InBounds(s)
        /\ Commit(s)

Close ==
    LET s == [close(Begin(Cur, "close")) EXCEPT !.closed = TRUE]
    IN  /\ Alive
        /\ InBounds(s)
        /\ Commit(s)

\* The toolkit delivers a close event (the user closes the window, or a
\* parent window forwards its own close event) and hides the widget.
CloseEvent ==
    LET s == QWidget_hide(closeEvent(Begin(Cur, "closeEvent")), TRUE)
    IN  /\ Alive
        /\ InBounds(s)
        /\ Commit(s)

\* qapp.exec_() returns once the loop has been told to stop.
ExecReturn ==
    /\ Alive
    /\ inLoop
    /\ quitRequested
    /\ Commit(exec_return(Begin(Cur, "exec_return")))

\* The host application (a subclass, or the window the figure is embedded
\* in) adds a widget of its own to the figure's layout, self.vl.
AddOther ==
    /\ Alive
    /\ Len(Others(vl)) < MaxOthers
    /\ Commit(layout_addWidget(Begin(Cur, "addWidget"),
                               -(Len(Others(vl)) + 1)))

\* A plot is added to the figure.
AddPlot ==
    /\ Alive
    /\ props < MaxProps
    /\ Commit(add_plot(Begin(Cur, "add_plot")))

\* The figure is reclaimed and __del__ runs.  A show() suspended in the
\* event loop holds the figure, so it is not reclaimed then.
Del ==
    \E raised \in CallOutcomes :
        /\ Alive
        /\ ~inLoop
        /\ Commit(del_(Begin(Cur, "__del__"), raised))

Next ==
    \/ Show \/ Update \/ Close \/ CloseEvent \/ ExecReturn \/ AddOther
    \/ AddPlot \/ Del

Spec == Init /\ [][Next]_vars

\* The event loop is single-threaded and cooperative: it regains control
\* when the running callback returns, and a loop that was told to stop
\* returns from exec_() then.
FairSpec == Spec /\ WF_vars(ExecReturn)

\* The calls of lines 307-312 that go into Qt or VTK.
NativeCalls ==
    {"MakeCurrent", "indexOf", "removeWidget", "Finalize", "RemoveRenderer"}

\* closeEvent is called (by the parent's closeEvent, as the class docstring
\* asks) and one native call of the teardown raises, as PyQt does on a
\* widget whose C++ object is gone; the exception reaches the caller.
CloseEventRaises ==
    \E failing \in NativeCalls :
        LET s == _clean_up_raising(Begin(Cur, "closeEvent"), failing)
        IN  /\ Alive
            /\ InBounds(s)
            /\ Commit(s)

FaultNext == Next \/ CloseEventRaises

\* The figure in an environment where a native call of the teardown may
\* raise.
FaultSpec == Init /\ [][FaultNext]_vars

(***************************************************************************)
(* Vocabulary of the properties.                                           *)
(***************************************************************************)

\* is_current(surface, renderer): the figure has a render window and it is
\* the renderer's window.
IsCurrent == cache["renWin"] # 0 /\ rendererWindow = cache["renWin"]

\* The state teardown leaves: no surface in the layout, the renderer in no
\* window, no cached surface, window or interactor.
TornDown ==
    /\ Surfaces(vl) = <<>>
    /\ rendererWindow = 0
    /\ registered = {}
    /\ \A n \in SlotNames : cache[n] = 0

\* The lifecycle state, read off the figure.
Lifecycle ==
    IF TornDown THEN (IF closed THEN "DESTROYED" ELSE "DETACHED")
    ELSE IF visible THEN "SHOWING"
    ELSE "BOUND"

\* The positions in the log of the native call `step` made by run r of
\* _clean_up.
StepsAt(step, r) ==
    {i \in DOMAIN log : log[i].step = step /\ log[i].run = r}

\* The native calls of run r of _clean_up, constructions aside, in order.
RunSteps(r) ==
    LET q == SelectSeq(log, LAMBDA e : e.run = r /\ e.step # "construct")
    IN  [i \in DOMAIN q |-> q[i].step]

TeardownOps == {"close", "closeEvent"}

(***************************************************************************)
(* C1.  Teardown order.                                                    *)
(***************************************************************************)

C2_SecondCloseIsNoOp ==
    [][(lastOp = "close" /\ lastOp' = "close") =>
           (err' = "none" /\ TornDown' /\ log' = <<>>)]_vars

(***************************************************************************)
(* C3.  Round trip: show, detach, show.                                    *)
(***************************************************************************)

\* C3: a show() on a figure that a teardown has detached (surface out of
\* the layout, renderer unregistered) raises nothing and ends with the
\* figure's live render surface being the renderer's window; the surface
\* is a new instance, in the layout, and not finalized.
C3_RoundTrip ==
    [][(TornDown /\ lastOp' = "show") =>
           /\ err' = "none"
           /\ IsCurrent'
           /\ Surfaces(vl') = << cache'["vtkWidget"] >>
           /\ cache'["renWin"] \notin finalized'
           /\ cache'["renWin"] \notin finalized]_vars

\* A figure shown again after a close event: bound to a surface other than
\* the first one.
C3_Witness ==
    /\ lastOp = "show"
    /\ ~closed
    /\ reinit
    /\ IsCurrent
    /\ cache["renWin"] # 1
    /\ 1 \in finalized

(***************************************************************************)
(* C4.  Renderer identity.                                                 *)
(***************************************************************************)

\* C4: in every reachable state the figure's renderer is the one made at
\* construction.
C4_RendererIdentity == renderer = Renderer0

\* A rebind has replaced the surface, the window and the interactor, and
\* the renderer is the first one.
C4_Witness ==
    /\ lastOp = "show"
    /\ reinit
    /\ \A n \in SlotNames : cache[n] > 1
    /\ renderer = Renderer0
    /\ rendererWindow = cache["renWin"]

(***************************************************************************)
(* C5.  Lazy construction, once per generation.                            *)
(***************************************************************************)

DelSteps == {"del_" \o n : n \in SlotNames}

\* C5: since its last invalidation each lazy slot has had its factory
\* called at most once, holds an object exactly when it was called, and
\* was called only after a read; at most one widget is built per
\* generation; a filled slot keeps its object over every native call but
\* its own del; and a del changes nothing but its slot (no release).
C5_LazyOncePerGeneration ==
    /\ \A n \in SlotNames :
           /\ calls[n] <= 1
           /\ (cache[n] # 0) <=> (calls[n] = 1)
           /\ (calls[n] = 1) => gets[n]
    /\ built <= 1
    /\ built = calls["vtkWidget"]
    /\ \A i \in 2..Len(log) :
           /\ \A n \in SlotNames :
                  (log[i - 1].cache[n] # 0 /\ log[i].step # "del_" \o n) =>
                      log[i].cache[n] = log[i - 1].cache[n]
           /\ \A n \in SlotNames :
                  log[i].step = "del_" \o n =>
                      /\ log[i].cache = [log[i - 1].cache EXCEPT ![n] = 0]
                      /\ log[i].vl = log[i - 1].vl
                      /\ log[i].registered = log[i - 1].registered
                      /\ log[i].finalized = log[i - 1].finalized
                      /\ log[i].rendererWindow = log[i - 1].rendererWindow

\* A second generation: after invalidation the three slots were read and
\* filled again, each by one factory call, from one new widget.
C5_Witness ==
    /\ finalized # {}
    /\ \A n \in SlotNames : cache[n] = 2 /\ calls[n] = 1 /\ gets[n]
    /\ built = 1
    /\ nWidgets = 2

(***************************************************************************)
(* C6.  is_current after a bind.                                           *)
(***************************************************************************)

\* C6: after construction, and after a show() that ran the rebind, the
\* renderer's window is the figure's live render surface; and a show() on
\* a figure that no teardown has touched runs no rebind.
C6_BindIsCurrent ==
    /\ (lastOp = "init" \/ (lastOp = "show" /\ reinit)) => IsCurrent
    /\ (lastOp = "show" /\ finalized = {}) => (~reinit /\ IsCurrent)

\* The first show() of a new figure: no rebind, the first surface current.
C6_Witness ==
    /\ lastOp = "show"
    /\ finalized = {}
    /\ ~reinit
    /\ IsCurrent
    /\ cache["renWin"] = 1
    /\ visible

(***************************************************************************)
(* C7.  update() on a torn-down figure.                                    *)
(***************************************************************************)

ReinitAt == CHOOSE i \in DOMAIN log : log[i].step = "_re_init"

\* C8 as stated: a bind that finds a surface in the layout signals
\* ReentrantBindError and changes neither the layout, nor the bound
\* surface, nor the renderer's registration.
C8_ReentrantBindSignalled ==
    (reinit /\ bindOccupied) =>
        /\ err = "ReentrantBindError"
        /\ vl = log[ReinitAt].vl
        /\ cache = log[ReinitAt].cache
        /\ registered = log[ReinitAt].registered
        /\ rendererWindow = log[ReinitAt].rendererWindow

\* C8 amended: a bind that finds a surface in the layout signals no
\* error; it takes the cached surface as it is, constructs and inserts no
\* second one, leaves the layout as it was, and registers the renderer
\* with that surface.
C8_RebindReusesSurface ==
    (reinit /\ bindOccupied) =>
        /\ err = "none"
        /\ vl = log[ReinitAt].vl
        /\ Len(Surfaces(vl)) = 1
        /\ cache["vtkWidget"] = log[ReinitAt].cache["vtkWidget"]
        /\ \A i \in DOMAIN log :
               i > ReinitAt => log[i].step \notin {"construct", "insertWidget"}
        /\ registered = {cache["renWin"]}
        /\ IsCurrent

\* A rebind found the layout occupied and went through without error,
\* the renderer not registered when it started.
C8_Witness ==
    /\ reinit
    /\ bindOccupied
    /\ err = "none"
    /\ log[ReinitAt].registered = {}
    /\ IsCurrent

(***************************************************************************)
(* C9.  DESTROYED and show().                                              *)
(***************************************************************************)

\* C9 as stated: once close() has torn the figure down, no operation
\* binds a surface to the renderer again or leaves DESTROYED.
C9_DestroyedIsTerminal ==
    [][Lifecycle = "DESTROYED" => Lifecycle' = "DESTROYED"]_vars

\* C9 amended: close() always leaves the figure torn down, and update(),
\* close(), the close event and the return of the event loop keep a
\* torn-down figure torn down; show() on a torn-down figure, closed or
\* only detached, rebinds a new surface to the same renderer.
C9_OnlyShowLeavesTornDown ==
    [][/\ lastOp' = "close" => (TornDown' /\ Lifecycle' = "DESTROYED")
       /\ (TornDown /\ lastOp' # "show") => TornDown'
       /\ (TornDown /\ lastOp' = "show") =>
              /\ reinit'
              /\ IsCurrent'
              /\ renderer' = renderer
              /\ Lifecycle' = "SHOWING"]_vars

\* A closed figure was shown again and is bound to a new surface.
C9_Witness ==
    /\ closed
    /\ lastOp = "show"
    /\ reinit
    /\ IsCurrent
    /\ Lifecycle = "SHOWING"

(***************************************************************************)
(* C10.  At most one render surface in the container.                      *)
(***************************************************************************)

\* C10: the layout never holds more than one surface widget, not even
\* between two native calls of one operation; the one it holds is the
\* cached surface; after a teardown it holds none; and show() and
\* update() leave a cached surface and the layout as they are.
C10_OneSurface ==
    /\ [](/\ Len(Surfaces(vl)) <= 1
          /\ Surfaces(vl) # <<>> => Surfaces(vl) = << cache["vtkWidget"] >>
          /\ lastOp \in TeardownOps => Surfaces(vl) = <<>>
          /\ \A i \in DOMAIN log : Len(Surfaces(log[i].vl)) <= 1)
    /\ [][(cache["vtkWidget"] # 0 /\ lastOp' \in {"show", "update"}) =>
              (cache'["vtkWidget"] = cache["vtkWidget"] /\ vl' = vl)]_vars

\* The second surface of the figure, alone in the layout, after a show()
\* and an update().
C10_Witness ==
    /\ lastOp = "update"
    /\ Surfaces(vl) = <<2>>
    /\ cache["vtkWidget"] = 2
    /\ drawn = 2

(***************************************************************************)
(* C11.  The interactor belongs to the current surface.                    *)
(***************************************************************************)

\* C11: an interactor is the interactor of one render surface (interactor
\* k is GetInteractor() of window k, and the figure constructs no other),
\* and the interactor the figure holds is the one of the surface widget and
\* render window it holds at that moment, never the one of a surface that
\* was finalized in an earlier generation.  The same holds after every
\* native call of an operation outside the del statement of line 313.
C11_InteractorOfCurrentSurface ==
    /\ cache["iren"] # 0 =>
           /\ cache["iren"] = cache["vtkWidget"]
           /\ cache["iren"] = cache["renWin"]
           /\ cache["iren"] \notin finalized
    /\ \A i \in DOMAIN log :
           (log[i].step \notin DelSteps /\ log[i].cache["iren"] # 0) =>
               log[i].cache["iren"] = log[i].cache["vtkWidget"]

\* The figure holds the interactor of its second surface; the first one
\* was finalized.
C11_Witness ==
    /\ cache["iren"] = 2
    /\ cache["vtkWidget"] = 2
    /\ 1 \in finalized

(***************************************************************************)
(* C12.  show(block).                                                      *)
(***************************************************************************)

\* C12: a show() raises nothing, leaves the figure visible and SHOWING, and
\* calls the event loop (qapp.exec_()) exactly when block is True, or was
\* not given and the figure has no parent; the caller is then in the loop.
\* show(block=False) returns without calling the event loop.
C12_ShowBlocksIffAsked ==
    lastOp = "show" =>
        /\ err = "none"
        /\ visible
        /\ Lifecycle = "SHOWING"
        /\ execCalled <=>
               (blockArg = "True" \/ (blockArg = "None" /\ ~hasParent))
        /\ execCalled => inLoop
        /\ blockArg = "False" => ~execCalled

\* show() without a block argument on a figure without parent has entered
\* the event loop, after a teardown.
C12_Witness ==
    /\ lastOp = "show"
    /\ blockArg = "None"
    /\ ~hasParent
    /\ execCalled
    /\ inLoop
    /\ reinit
    /\ Lifecycle = "SHOWING"

(***************************************************************************)
(* C13.  Closing inside a blocked show().                                  *)
(***************************************************************************)

C14_ObserverOnlyDuringTeardown == silenced = {}

\* C14 amended: the error observer is attached once, at construction, to
\* the first surface widget, its interactor and its render window; it is
\* never detached, teardown attaches nothing, and the surfaces, windows and
\* interactors of later generations get no observer.
C14_ObserverFromConstruction ==
    silenced = {<< n, 1 >> : n \in SlotNames}

\* The figure shows its second surface after a close event: the observer
\* is still on the first, finalized surface and not on the second.
C14_Witness ==
    /\ lastOp = "show"
    /\ cache["vtkWidget"] = 2
    /\ 1 \in finalized
    /\ << "vtkWidget", 1 >> \in silenced
    /\ << "vtkWidget", 2 >> \notin silenced

(***************************************************************************)
(* C15.  The slot of the surface widget in the layout.                     *)
(***************************************************************************)

\* C15 as stated: after a show() that rebinds, the surface widget is at
\* the position an insert at the index recorded by the last teardown gives
\* (the end of the layout when no index was recorded), and the show() has
\* not failed on an index that was never recorded.
C15_ReinsertedAtRecordedIndex ==
    (lastOp = "show" /\ reinit) =>
        /\ err = "none"
        /\ IndexOf(vl, cache["vtkWidget"]) =
               IndexOf(InsertAt(RemoveFrom(vl, cache["vtkWidget"]),
                                replaceIndex, cache["vtkWidget"]),
                       cache["vtkWidget"])

(***************************************************************************)
(* C16.  Teardown when a step fails.                                       *)
(***************************************************************************)

\* C16 as stated: whatever happens to an intermediate step, a teardown
\* leaves the figure torn down: no surface in the layout, the renderer in
\* no window, the caches empty, and every surface ever constructed
\* finalized.  In no state is the interactor of a surface released while
\* that surface was never finalized, and in no state do the caches hold a
\* finalized surface that still has the renderer.
C16_TeardownAlwaysComplete ==
    /\ lastOp \in TeardownOps =>
           /\ TornDown
           /\ \A w \in 1..nWidgets : w \in finalized
    /\ \A w \in 1..nWidgets :
           (w \notin finalized /\ w \in styled) => cache["iren"] = w
    /\ cache["renWin"] # 0 =>
           ~(cache["renWin"] \in finalized /\ cache["renWin"] \in registered)

(***************************************************************************)
(* C17.  The camera survives a rebind.                                     *)
(***************************************************************************)

\* C17: the renderer's active camera is always the camera of construction;
\* a show() that rebinds sets that same camera on the same renderer, after
\* the renderer was added to the new surface's window.
C17_CameraSurvivesRebind ==
    /\ [](activeCamera = Camera0)
    /\ [][(lastOp' = "show" /\ reinit') =>
              /\ activeCamera' = activeCamera
              /\ renderer' = renderer
              /\ \E i \in DOMAIN log' :
                     /\ log'[i].step = "SetActiveCamera"
                     /\ log'[i].obj = activeCamera
                     /\ log'[i].rendererWindow = cache'["renWin"]
                     /\ cache'["renWin"] \in log'[i].registered
                     /\ cache'["renWin"] # cache["renWin"]]_vars

\* A show() after a close event has put the camera of construction on the
\* renderer in the window of the second surface.
C17_Witness ==
    /\ lastOp = "show"
    /\ reinit
    /\ rendererWindow = 2
    /\ 1 \in finalized
    /\ activeCamera = Camera0
    /\ \E i \in DOMAIN log : log[i].step = "SetActiveCamera"

(***************************************************************************)
(* C18.  The interaction style.                                            *)
(***************************************************************************)

\* C18: the interactor the figure holds has the figure's interactor style
\* set, and so has the interactor of the surface of a figure that is BOUND
\* or SHOWING; a show() that rebinds sets the style on the interactor of
\* the new surface.
C18_StyleOnEveryInteractor ==
    /\ [](cache["iren"] # 0 => cache["iren"] \in styled)
    /\ [](Lifecycle \in {"BOUND", "SHOWING"} =>
              (cache["vtkWidget"] # 0 => cache["vtkWidget"] \in styled))
    /\ [][(lastOp' = "show" /\ reinit') =>
              /\ cache'["iren"] # 0
              /\ cache'["iren"] = cache'["renWin"]
              /\ cache'["iren"] \notin styled
              /\ cache'["iren"] \in styled']_vars

\* The figure shows its second surface, whose interactor has the style.
C18_Witness ==
    /\ lastOp = "show"
    /\ reinit
    /\ cache["iren"] = 2
    /\ styled = {1, 2}
    /\ Lifecycle = "SHOWING"

(***************************************************************************)
(* C19.  Dependency order of the lazy resources.                           *)
(***************************************************************************)

\* C19: a cached render window or interactor comes with a cached surface
\* widget, the one it was taken from, in every state and after every
\* native call outside the del statement of line 313; and when the window
\* or the interactor slot is filled the widget slot is already filled or
\* is filled by the same read, never after it.
C19_WidgetBeforeWindowAndInteractor ==
    /\ [](\A n \in {"renWin", "iren"} :
              /\ cache[n] # 0 =>
                     (cache["vtkWidget"] # 0 /\ cache[n] = cache["vtkWidget"])
              /\ \A i \in DOMAIN log :
                     (log[i].step \notin DelSteps /\ log[i].cache[n] # 0) =>
                         log[i].cache[n] = log[i].cache["vtkWidget"])
    /\ [][\A n \in {"renWin", "iren"} :
              (cache[n] = 0 /\ cache'[n] # 0) =>
                  /\ cache'[n] = cache'["vtkWidget"]
                  /\ \E i \in DOMAIN log' :
                         /\ log'[i].step = "construct"
                         /\ log'[i].obj = cache'[n]
                         /\ log'[i].cache[n] = 0]_vars

\* The second generation: widget, window and interactor of surface 2 are
\* cached after the widget was constructed by a show().
C19_Witness ==
    /\ lastOp = "show"
    /\ cache = [vtkWidget |-> 2, renWin |-> 2, iren |-> 2]
    /\ \E i \in DOMAIN log :
           /\ log[i].step = "construct"
           /\ log[i].obj = 2
           /\ log[i].cache["renWin"] = 0

(***************************************************************************)
(* C20.  One close(), one teardown.                                        *)
(***************************************************************************)

\* C20 as stated: a close() runs the teardown routine exactly once,
\* constructs no surface widget between its entry and its return, and
\* every surface its teardown touches existed before the close().
C20_CloseTearsDownOnce ==
    /\ [](lastOp = "close" =>
              /\ runs = 1
              /\ \A i \in DOMAIN log : log[i].step # "construct")
    /\ [][lastOp' = "close" =>
              /\ nWidgets' = nWidgets
              /\ \A i \in DOMAIN log' :
                     log'[i].obj # 0 => log'[i].obj <= nWidgets]_vars

(***************************************************************************)
(* C21.  Nothing is reset when the event loop returns.                     *)
(***************************************************************************)

\* The native calls that take a surface down.
ResetSteps ==
    {"removeWidget", "Finalize", "RemoveRenderer"} \cup DelSteps

\* C21: a show() makes none of the calls that take a surface down, and a
\* blocking show(), which runs the finalise hook, leaves the figure bound
\* to its surface; the return of the event loop changes neither the cached
\* surface, window and interactor, nor the renderer's registration, nor
\* the layout, nor the lifecycle state, so a figure that was current
\* stays current; those calls are made by close() and the close event only.
C21_LoopReturnResetsNothing ==
    /\ [](lastOp = "show" =>
              /\ \A i \in DOMAIN log : log[i].step \notin ResetSteps
              /\ execCalled =>
                     (IsCurrent /\ cache["renWin"] \notin finalized
                      /\ Lifecycle = "SHOWING"))
    /\ []((\E i \in DOMAIN log : log[i].step \in ResetSteps) =>
              lastOp \in TeardownOps)
    /\ [][lastOp' = "exec_return" =>
              /\ cache' = cache
              /\ vl' = vl
              /\ registered' = registered
              /\ rendererWindow' = rendererWindow
              /\ finalized' = finalized
              /\ renderer' = renderer
              /\ Lifecycle' = Lifecycle
              /\ IsCurrent' = IsCurrent]_vars
    /\ [][(IsCurrent /\ ~IsCurrent') => lastOp' \in TeardownOps]_vars

\* The event loop has returned on a figure that was shown again before the
\* return: it is still current and SHOWING.
C21_Witness ==
    /\ lastOp = "exec_return"
    /\ IsCurrent
    /\ Lifecycle = "SHOWING"
    /\ cache["renWin"] \notin finalized

(***************************************************************************)
(* C22.  The destructor.                                                   *)
(***************************************************************************)

\* C22 as stated: __del__ only removes the props of the renderer, touches
\* no surface, window, interactor or layout, and raises nothing, whatever
\* the native call ends with and whatever state the figure is in.
C22_DestructorNeverRaises ==
    /\ [](lastOp = "__del__" => err = "none")
    /\ [][lastOp' = "__del__" =>
              UNCHANGED << cache, nWidgets, vl, renderer, rendererWindow,
                           registered, finalized, glCurrent, styled,
                           replaceIndex, visible, activeCamera,
                           silenced >>]_vars

\* C22 amended: __del__ makes one call, RemoveAllViewProps on the
\* renderer, and touches no surface, window, interactor or layout, in
\* every state of the figure.  When the call returns the renderer has no
\* props; when it raises AttributeError or TypeError the error is swallowed
\* and the props stay; an error of any other type leaves __del__.
C22_DestructorSwallowsTwoErrors ==
    [][lastOp' = "__del__" =>
           /\ UNCHANGED << cache, nWidgets, vl, renderer, rendererWindow,
                           registered, finalized, glCurrent, styled,
                           replaceIndex, visible, activeCamera,
                           silenced >>
           /\ Len(log') = 1
           /\ log'[1].step \in {"RemoveAllViewProps"} \cup CallOutcomes
           /\ log'[1].step = "RemoveAllViewProps" =>
                  (err' = "none" /\ props' = 0 /\ log'[1].obj = renderer)
           /\ log'[1].step \in {"AttributeError", "TypeError"} =>
                  (err' = "none" /\ props' = props)
           /\ log'[1].step \notin
                  {"RemoveAllViewProps", "AttributeError", "TypeError"} =>
                  (err' = log'[1].step /\ props' = props)]_vars

\* __del__ ran on a closed figure with a plot in it, the native call
\* raised TypeError, and nothing was raised by __del__.
C22_Witness ==
    /\ lastOp = "__del__"
    /\ closed
    /\ TornDown
    /\ props > 0
    /\ Len(log) = 1
    /\ log[1].step = "TypeError"
    /\ err = "none"

====
